---- MODULE Spec2Model ----
(***************************************************************************)
(* Model of the torrentapi client (src/torrentapi.go): the query builder,  *)
(* the token lifecycle and the orchestration of a terminal call            *)
(* (Search / List) with its single retry on an expired token.              *)
(*                                                                         *)
(* Text is modelled as a sequence of chunks: "&mode=search" is             *)
(* <<"&mode=", "search">>, and string concatenation is \o.  A terminal     *)
(* call is split at its blocking transport fetches: pc names the fetch the *)
(* call is waiting for, and while pc is "getResults1" or "getResults2" the *)
(* variable query is the request URL in flight.                            *)
(***************************************************************************)
EXTENDS Integers, Sequences, FiniteSets, TLC

VARIABLES
    Query,              \* API.Query: the accumulated descriptor (chunks)
    APIToken,           \* API.APIToken: [Token, Expires]
    categories,         \* API.categories
    api_tokenExpiration,\* API.tokenExpiration
    now,                \* time.Now()
    pc,                 \* position of the caller / of the running call
    query,              \* call's local variable `query`: the request URL, while the call runs
    ret,                \* (data, err) handed back by the call that just returned
    trace,              \* history of the call: its start, the fetches issued, the answers
    setCats,            \* history: arguments of Category since the last initQuery
    otherSets           \* history: where the first goroutine stood at each builder call of a second one

vars == <<Query, APIToken, categories, api_tokenExpiration, now, pc, query, ret, trace,
          setCats, otherSets>>

(***************************** bounds ***************************************)
MaxTime == 2
MaxSetters == 1
MaxCategories == 2
MaxModeFrags == 2
MaxOtherSets == 1

(************************** program constants *******************************)
tokenExpiration == 890
errCodeTokenExpired == 4
errCodeNoTorrents == 20

version == "v2"
apiURL(v) == <<"https://torrentapi.org/pubapi_", v, ".php?">>

(***************************** inputs ***************************************)
Constructors == {"New", "NewWithConfig"}
ConfExpirations == {0, 1}
TokenStrings == {"", "tokA", "tokB"}
CategoryIds == {4, 18}
SearchStrings == {<<"the", " ", "wire">>}
Nil == "nil"
RawPayloads == {"[r1]", "[r2]", "\"oops\""}
ErrorStrings == {"", "some error"}
ErrorCodes == {0, errCodeTokenExpired, 5, errCodeNoTorrents}

\* What the transport can answer on the token endpoint.
TokenResponses ==
    {[err |-> TRUE, json |-> FALSE, token |-> ""],
     [err |-> FALSE, json |-> FALSE, token |-> ""]}
    \cup {[err |-> FALSE, json |-> TRUE, token |-> t] : t \in TokenStrings}

\* The decoded envelope (APIResponse).
APIResponse ==
    [Torrents : {Nil}, Error : ErrorStrings, ErrorCode : ErrorCodes]
    \cup [Torrents : RawPayloads, Error : {""}, ErrorCode : {0}]
    \cup [Torrents : {"[r1]"}, Error : {"some error"}, ErrorCode : {errCodeTokenExpired, errCodeNoTorrents}]
ZeroResponse == [Torrents |-> Nil, Error |-> "", ErrorCode |-> 0]

\* What the transport can answer on the query endpoint.
QueryResponses ==
    {[err |-> TRUE, json |-> FALSE, r |-> ZeroResponse],
     [err |-> FALSE, json |-> FALSE, r |-> ZeroResponse]}
    \cup {[err |-> FALSE, json |-> TRUE, r |-> e] : e \in APIResponse}

(***************************** text helpers *********************************)
Digits == <<"0", "1", "2", "3", "4", "5", "6", "7", "8", "9">>

RECURSIVE ItoaNat(_)
ItoaNat(n) == IF n < 10 THEN <<Digits[n + 1]>>
              ELSE ItoaNat(n \div 10) \o <<Digits[(n % 10) + 1]>>

\* strconv.Itoa
Itoa(n) == IF n < 0 THEN <<"-">> \o ItoaNat(-n) ELSE ItoaNat(n)

RECURSIVE Join(_, _)
\* strings.Join: elems is a sequence of strings (each a chunk sequence)
Join(elems, sep) ==
    IF Len(elems) = 0 THEN <<>>
    ELSE IF Len(elems) = 1 THEN elems[1]
    ELSE elems[1] \o <<sep>> \o Join(Tail(elems), sep)

\* url.QueryEscape, chunk by chunk
EscapeChunk(c) == CASE c = " " -> "+"
                    [] c = "&" -> "%26"
                    [] c = "=" -> "%3D"
                    [] c = ";" -> "%3B"
                    [] OTHER -> c
QueryEscape(s) == [i \in 1..Len(s) |-> EscapeChunk(s[i])]

\* The "&key=" literals of the format strings.
SetterKeys == {"&search_string=", "&search_tvdb=", "&search_imdb=", "&search_themoviedb=",
               "&format=", "&limit=", "&sort=", "&ranked=", "&min_seeders=", "&min_leechers="}
Keys == SetterKeys \cup {"&mode=", "&category=", "&token="}

CountIn(s, S) == Cardinality({i \in 1..Len(s) : s[i] \in S})
NumSetterFrags(q) == CountIn(q, SetterKeys)
NumModeFrags(q) == CountIn(q, {"&mode="})

(***************************** the client ***********************************)
\* api.apiURL after construction: fmt.Sprintf(apiURL, version)
api_apiURL == apiURL(version)

\* The token endpoint's URL, as renewToken builds it.
TokenURL == api_apiURL \o <<"get_token=get_token">>

\* Mutant of IsValid: the token is taken as expired at its expiry instant already.
IsValidStrict(t, n) ==
    IF t.Token = "" THEN FALSE
    ELSE IF n >= t.Expires THEN FALSE
    ELSE TRUE

\* Mutant of IsValid: the check of the empty token string is missing.
IsValidTimeOnly(t, n) ==
    IF n > t.Expires THEN FALSE
    ELSE TRUE

\* Mutant of IsValid: Before is tested in place of After.
IsValidBefore(t, n) ==
    IF t.Token = "" THEN FALSE
    ELSE IF n < t.Expires THEN FALSE
    ELSE TRUE

\* Token.IsValid at instant n
IsValid(t, n) ==
    IF t.Token = "" THEN FALSE
    ELSE IF n > t.Expires THEN FALSE
    ELSE TRUE

\* json.Unmarshal(r.Torrents, &data)
Unmarshal(raw) ==
    CASE raw = "[r1]" -> [data |-> <<"r1">>, ok |-> TRUE]
      [] raw = "[r2]" -> [data |-> <<"r2">>, ok |-> TRUE]
      [] OTHER -> [data |-> <<>>, ok |-> FALSE]

\* Mutant of processResponse: the "no torrents" code is not singled out.
processResponseNoBenign(r) ==
    IF r.Torrents # Nil
    THEN LET u == Unmarshal(r.Torrents)
         IN  [data |-> u.data, err |-> IF u.ok THEN "nil" ELSE "unmarshal"]
    ELSE IF r.Error # ""
    THEN IF r.ErrorCode = errCodeTokenExpired
         THEN [data |-> <<>>, err |-> "expired token"]
         ELSE [data |-> <<>>, err |-> "api"]
    ELSE [data |-> <<>>, err |-> "unknown"]

\* Mutant of processResponse: the error fields are looked at before the results.
processResponseErrorFirst(r) ==
    IF r.Error # ""
    THEN IF r.ErrorCode = errCodeTokenExpired
         THEN [data |-> <<>>, err |-> "expired token"]
         ELSE IF r.ErrorCode = errCodeNoTorrents
         THEN [data |-> <<>>, err |-> "nil"]
         ELSE [data |-> <<>>, err |-> "api"]
    ELSE IF r.Torrents # Nil
    THEN LET u == Unmarshal(r.Torrents)
         IN  [data |-> u.data, err |-> IF u.ok THEN "nil" ELSE "unmarshal"]
    ELSE [data |-> <<>>, err |-> "unknown"]

\* API.processResponse: (data, err)
processResponse(r) ==
    IF r.Torrents # Nil
    THEN LET u == Unmarshal(r.Torrents)
         IN  [data |-> u.data, err |-> IF u.ok THEN "nil" ELSE "unmarshal"]
    ELSE IF r.Error # ""
    THEN IF r.ErrorCode = errCodeTokenExpired
         THEN [data |-> <<>>, err |-> "expired token"]
         ELSE IF r.ErrorCode = errCodeNoTorrents
         THEN [data |-> <<>>, err |-> "nil"]
         ELSE [data |-> <<>>, err |-> "api"]
    ELSE [data |-> <<>>, err |-> "unknown"]

\* Mutant of retryOnExpired: the retry is taken after every attempt (a loop).
retryOnExpiredAgain(at, err) == err = "expired token"

\* Mutant of retryOnExpired: every error of the first attempt is retried.
retryOnAnyError(at, err) == at = "getResults1" /\ err # "nil"

\* call: the type switch that decides the retry, taken after the first attempt only
retryOnExpired(at, err) == at = "getResults1" /\ err = "expired token"

\* Mutant of retried: `data, err := ...` shadows the named results, so the first
\* attempt's (nil, expired token) is what the call returns.
retriedShadowed(first, second) == first

\* call: `data, err = api.processResponse(r)` on the retry: the second attempt's
\* outcome replaces what the first attempt left in the named results
retried(first, second) == second

\* call: the category list joined into one fragment
FlushCategories(q, cats) ==
    IF Len(cats) > 0
    THEN q \o <<"&category=">> \o Join([i \in 1..Len(cats) |-> Itoa(cats[i])], ";")
    ELSE q

\* call: fmt.Sprintf("%s&token=%s%s", api.apiURL, api.APIToken.Token, api.Query)
BuildQuery(tok, q) == api_apiURL \o <<"&token=", tok>> \o q

\* A renewToken that stamps the token with the renewal time itself.
RenewedTokenNoDuration(resp, n) == [Token |-> resp.token, Expires |-> n]

\* renewToken: the token a decodable body installs
RenewedToken(resp, n) == [Token |-> resp.token, Expires |-> n + api_tokenExpiration]

\* A renewToken that decodes straight into the stored token, and so has wiped
\* it when it returns its error.
KeptTokenDecodedInPlace(old, resp) == [Token |-> "", Expires |-> old.Expires]

\* renewToken: on a failed fetch or decode it returns before `api.APIToken = t`;
\* the body is decoded into the local t, so the stored token is what it was
KeptToken(old, resp) == old

\* An initQuery that clears Query and forgets to truncate the category list.
initQueryKeepsCategories == [Query |-> <<>>, categories |-> categories]

\* initQuery: what it leaves in (Query, categories)
initQuery == [Query |-> <<>>, categories |-> <<>>]

\* New / NewWithConfig: the duration the constructor stores (a zero
\* Config.TokenExpiration, and New, take the default)
ConfiguredExpiration(ctor, conf) ==
    IF ctor = "NewWithConfig" /\ conf # 0 THEN conf ELSE tokenExpiration

\* A client that serialises its operations: a builder method waits while a call
\* is running.
setterMayRunLocked(at) == at = "idle"

\* API has no mutex: a builder method runs whatever another goroutine is doing
\* with the client (at is the position of the running call, if any)
setterMayRun(at) == TRUE

NoRet == [data |-> <<>>, err |-> "none"]

\* What the first attempt leaves in (data, err) when the retry is taken.
ExpiredResult == [data |-> <<>>, err |-> "expired token"]

FetchEv(kind) == [ev |-> "fetch", kind |-> kind]
ResponseEv(kind, resp) == [ev |-> "response", kind |-> kind, resp |-> resp]

\* New / NewWithConfig has filled the new API value and waits in renewToken for
\* the answer of the token endpoint.
Init ==
    /\ \E ctor \in Constructors, conf \in ConfExpirations :
          /\ ctor = "New" => conf = 0
          /\ api_tokenExpiration = ConfiguredExpiration(ctor, conf)
          /\ trace = <<[ev |-> "new", ctor |-> ctor, conf |-> conf], FetchEv("token")>>
    /\ APIToken = [Token |-> "", Expires |-> 0]
    /\ now = 0
    /\ Query = <<>>
    /\ categories = <<>>
    /\ pc = "renewToken0"
    /\ query = <<>>
    /\ ret = NoRet
    /\ setCats = <<>>
    /\ otherSets = <<>>

\* New / NewWithConfig, from the answer of the token endpoint on: (nil, err), or
\* the client after initQuery
NewReturn ==
    /\ pc = "renewToken0"
    /\ \E resp \in TokenResponses :
          /\ trace' = Append(trace, ResponseEv("token", resp))
          /\ IF resp.err \/ ~resp.json
             THEN /\ pc' = "noclient"
                  /\ ret' = [data |-> <<>>, err |-> IF resp.err THEN "transport" ELSE "json"]
                  /\ APIToken' = KeptToken(APIToken, resp)
                  /\ UNCHANGED <<Query, categories>>
             ELSE /\ APIToken' = RenewedToken(resp, now)
                  /\ Query' = initQuery.Query
                  /\ categories' = initQuery.categories
                  /\ pc' = "constructed"
                  /\ ret' = [data |-> <<>>, err |-> "nil"]
    /\ UNCHANGED <<api_tokenExpiration, now, query, setCats, otherSets>>

(****************************** setters *************************************)
\* A setter that puts its fragment in front of what Query holds.
AppendFragmentInFront(frag) ==
    /\ pc = "idle"
    /\ NumSetterFrags(Query) < MaxSetters
    /\ NumModeFrags(Query) < MaxModeFrags
    /\ Query' = frag \o Query
    /\ UNCHANGED <<APIToken, categories, api_tokenExpiration, now, pc, query, ret, trace,
                   setCats, otherSets>>

\* api.Query += fragment; return api
AppendFragment(frag) ==
    /\ pc = "idle"
    /\ NumSetterFrags(Query) < MaxSetters
    /\ NumModeFrags(Query) < MaxModeFrags
    /\ Query' = Query \o frag
    /\ UNCHANGED <<APIToken, categories, api_tokenExpiration, now, pc, query, ret, trace,
                   setCats, otherSets>>

SearchString == \E s \in SearchStrings : AppendFragment(<<"&search_string=">> \o QueryEscape(s))

Category ==
    /\ pc = "idle"
    /\ Len(categories) < MaxCategories
    /\ NumModeFrags(Query) < MaxModeFrags
    /\ \E c \in CategoryIds :
          /\ categories' = Append(categories, c)
          /\ setCats' = Append(setCats, c)
    /\ UNCHANGED <<Query, APIToken, api_tokenExpiration, now, pc, query, ret, trace, otherSets>>

SearchTVDB == \E id \in {"81189"} : AppendFragment(<<"&search_tvdb=", id>>)

SearchImDB == \E id \in {"tt0903747"} : AppendFragment(<<"&search_imdb=", id>>)

SearchTheMovieDB == \E id \in {"1396"} : AppendFragment(<<"&search_themoviedb=", id>>)

Format == \E f \in {"json_extended"} : AppendFragment(<<"&format=", f>>)

Limit == \E l \in {25} : AppendFragment(<<"&limit=">> \o Itoa(l))

Sort == \E s \in {"seeders"} : AppendFragment(<<"&sort=", s>>)

Ranked == \E ranked \in BOOLEAN :
             AppendFragment(IF ranked THEN <<"&ranked=", "1">> ELSE <<"&ranked=", "0">>)

MinSeeders == \E n \in {1} : AppendFragment(<<"&min_seeders=">> \o Itoa(n))

MinLeechers == \E n \in {1} : AppendFragment(<<"&min_leechers=">> \o Itoa(n))

(*************************** terminal calls *********************************)
\* call, from the category flush to the first query fetch, with token tok installed
FirstAttempt(q, tok, before) ==
    LET flushed == FlushCategories(q, categories)
        url == BuildQuery(tok, flushed)
    IN  /\ Query' = flushed
        /\ query' = url
        /\ trace' = before \o <<FetchEv("query")>>
        /\ pc' = "getResults1"

\* call, entered with Query = q: the validity check and what follows it
call(q, mode) ==
    LET valid == IsValid(APIToken, now)
        start == [ev |-> "call", mode |-> mode, tok |-> APIToken.Token,
                  expires |-> APIToken.Expires, now |-> now, valid |-> valid]
    IN  /\ pc = "idle"
        /\ NumModeFrags(q) <= MaxModeFrags
        /\ IF ~valid
           THEN /\ pc' = "renewToken1"
                /\ Query' = q
                /\ trace' = <<start, FetchEv("token")>>
                /\ UNCHANGED query
           ELSE FirstAttempt(q, APIToken.Token, <<start>>)
        /\ ret' = NoRet
        /\ UNCHANGED <<APIToken, categories, api_tokenExpiration, now, setCats, otherSets>>

List == call(Query \o <<"&mode=", "list">>, "list")

Search == call(Query \o <<"&mode=", "search">>, "search")

\* renewToken, from the answer of the token endpoint on
RenewTokenReturn ==
    /\ pc \in {"renewToken1", "renewToken2"}
    /\ \E resp \in TokenResponses :
          LET got == ResponseEv("token", resp) IN
          IF resp.err \/ ~resp.json
          THEN /\ pc' = "returned"
               /\ ret' = [data |-> <<>>, err |-> IF resp.err THEN "transport" ELSE "json"]
               /\ trace' = Append(trace, got)
               /\ query' = <<>>
               /\ APIToken' = KeptToken(APIToken, resp)
               /\ UNCHANGED Query
          ELSE /\ APIToken' = RenewedToken(resp, now)
               /\ IF pc = "renewToken1"
                  THEN FirstAttempt(Query, APIToken'.Token, Append(trace, got))
                  ELSE /\ pc' = "getResults2"
                       /\ trace' = trace \o <<got, FetchEv("query")>>
                       /\ UNCHANGED <<Query, query>>
               /\ UNCHANGED ret
    /\ UNCHANGED <<categories, api_tokenExpiration, now, setCats, otherSets>>

\* getResults and what call does with it, from the answer of the query endpoint on
GetResultsReturn ==
    /\ pc \in {"getResults1", "getResults2"}
    /\ \E resp \in QueryResponses :
          LET got == ResponseEv("query", resp) IN
          IF resp.err \/ ~resp.json
          THEN /\ pc' = "returned"
               /\ ret' = [data |-> <<>>, err |-> IF resp.err THEN "transport" ELSE "json"]
               /\ trace' = Append(trace, got)
               /\ query' = <<>>
               /\ UNCHANGED <<Query, categories, setCats>>
          ELSE LET p == processResponse(resp.r) IN
               IF retryOnExpired(pc, p.err)
               THEN /\ pc' = "renewToken2"
                    /\ trace' = trace \o <<got, FetchEv("token")>>
                    /\ UNCHANGED <<Query, categories, setCats, ret, query>>
               ELSE \* initQuery
                    /\ categories' = initQuery.categories
                    /\ Query' = initQuery.Query
                    /\ setCats' = <<>>
                    /\ ret' = (IF pc = "getResults2" THEN retried(ExpiredResult, p) ELSE p)
                    /\ trace' = Append(trace, got)
                    /\ query' = <<>>
                    /\ pc' = "returned"
    /\ UNCHANGED <<APIToken, api_tokenExpiration, now, otherSets>>

\* The caller takes the result; the call's locals go out of scope.
Return ==
    /\ pc \in {"returned", "constructed"}
    /\ pc' = "idle"
    /\ ret' = NoRet
    /\ trace' = <<>>
    /\ UNCHANGED <<Query, APIToken, categories, api_tokenExpiration, now, setCats, query,
                   otherSets>>

\* Time passes between the caller's operations; the clock is coarse against the
\* duration of a call, which runs within one instant of it.
Tick ==
    /\ pc = "idle"
    /\ now < MaxTime
    /\ now' = now + 1
    /\ UNCHANGED <<Query, APIToken, categories, api_tokenExpiration, pc, query, ret, trace,
                   setCats, otherSets>>

(*********************** a second goroutine on the client *******************)
InClient == {"idle", "renewToken1", "getResults1", "renewToken2", "getResults2"}

\* SearchImDB called by the second goroutine, at any point of the first one's call
OtherSearchImDB ==
    /\ pc \in InClient
    /\ setterMayRun(pc)
    /\ Len(otherSets) < MaxOtherSets
    /\ \E id \in {"tt0306414"} : Query' = Query \o <<"&search_imdb=", id>>
    /\ otherSets' = Append(otherSets, pc)
    /\ UNCHANGED <<APIToken, categories, api_tokenExpiration, now, pc, query, ret, trace, setCats>>

\* Category called by the second goroutine
OtherCategory ==
    /\ pc \in InClient
    /\ setterMayRun(pc)
    /\ Len(otherSets) < MaxOtherSets
    /\ Len(categories) < MaxCategories
    /\ \E c \in {44} :
          /\ categories' = Append(categories, c)
          /\ setCats' = Append(setCats, c)
    /\ otherSets' = Append(otherSets, pc)
    /\ UNCHANGED <<Query, APIToken, api_tokenExpiration, now, pc, query, ret, trace>>

Next ==
    \/ NewReturn
    \/ SearchString
    \/ Category
    \/ SearchTVDB
    \/ SearchImDB
    \/ SearchTheMovieDB
    \/ Format
    \/ Limit
    \/ Sort
    \/ Ranked
    \/ MinSeeders
    \/ MinLeechers
    \/ List
    \/ Search
    \/ RenewTokenReturn
    \/ GetResultsReturn
    \/ Return
    \/ Tick

Spec == Init /\ [][Next]_vars

\* Terminal calls after one representative of the fragment setters and the
\* Category setter (call does not branch on what Query holds), with a transport
\* that answers every fetch it was given: a fetch returns a response or an error.
NextCall ==
    \/ NewReturn
    \/ SearchString
    \/ Category
    \/ List
    \/ Search
    \/ RenewTokenReturn
    \/ GetResultsReturn
    \/ Return
    \/ Tick

SpecFair ==
    /\ Init
    /\ [][NextCall]_vars
    /\ WF_vars(NewReturn)
    /\ WF_vars(RenewTokenReturn)
    /\ WF_vars(GetResultsReturn)

\* One client shared by two goroutines without a lock: the first one builds and
\* calls, the second one calls builder methods at any point.
NextShared ==
    \/ NewReturn
    \/ SearchString
    \/ Category
    \/ List
    \/ Search
    \/ RenewTokenReturn
    \/ GetResultsReturn
    \/ Return
    \/ Tick
    \/ OtherSearchImDB
    \/ OtherCategory

SpecShared == Init /\ [][NextShared]_vars

(***************************************************************************)
(* Reading the history of a call.                                          *)
(***************************************************************************)
Started == Len(trace) > 0 /\ trace[1].ev = "call"
start == trace[1]

IsFetch(e, kind) == e.ev = "fetch" /\ e.kind = kind
IsResponse(e, kind) == e.ev = "response" /\ e.kind = kind

\* Positions in the trace of the fetches issued / the answers received.
FetchesAt(kind) == {i \in 1..Len(trace) : IsFetch(trace[i], kind)}
ResponsesAt(kind) == {i \in 1..Len(trace) : IsResponse(trace[i], kind)}
NumFetches(kind) == Cardinality(FetchesAt(kind))

\* The answers of the query endpoint, in order.
QueryAnswers == SelectSeq(trace, LAMBDA e : IsResponse(e, "query"))

\* Successful renewals: decodable answers of the token endpoint.
NumRenewals ==
    Cardinality({i \in ResponsesAt("token") : ~trace[i].resp.err /\ trace[i].resp.json})

\* The token a request URL carries: the chunk after its first "&token=".
TokenOf(url) ==
    LET at == CHOOSE i \in 1..Len(url) :
                  url[i] = "&token=" /\ \A j \in 1..(i - 1) : url[j] # "&token="
    IN  url[at + 1]

\* The values of the fragments of a URL that have the given key, in order of
\* appearance; a fragment runs from its key to the next key or to the end.
FragmentEnd(url, i) ==
    LET later == {j \in (i + 1)..Len(url) : url[j] \in Keys}
    IN  IF later = {} THEN Len(url)
        ELSE (CHOOSE j \in later : \A k \in later : j <= k) - 1
FragmentsAt(url, key) == {i \in 1..Len(url) : url[i] = key}
FragmentValue(url, i) == SubSeq(url, i + 1, FragmentEnd(url, i))

(***************************************************************************)
(* The outcomes the specification's decision table prescribes, stated      *)
(* apart from the client's code.                                           *)
(***************************************************************************)
Decodes(raw) == raw \in {"[r1]", "[r2]"}
ListOf(raw) == IF raw = "[r1]" THEN <<"r1">> ELSE IF raw = "[r2]" THEN <<"r2">> ELSE <<>>

HasResults(e) == e.Torrents # Nil
IsExpiredEnvelope(e) == ~HasResults(e) /\ e.Error # "" /\ e.ErrorCode = 4
IsBenignEnvelope(e) == ~HasResults(e) /\ e.Error # "" /\ e.ErrorCode = 20

Table(e) ==
    CASE HasResults(e) /\ Decodes(e.Torrents) -> [data |-> ListOf(e.Torrents), err |-> "nil"]
      [] HasResults(e) /\ ~Decodes(e.Torrents) -> [data |-> <<>>, err |-> "unmarshal"]
      [] IsExpiredEnvelope(e) -> [data |-> <<>>, err |-> "expired token"]
      [] IsBenignEnvelope(e) -> [data |-> <<>>, err |-> "nil"]
      [] ~HasResults(e) /\ e.Error # "" /\ e.ErrorCode \notin {4, 20} -> [data |-> <<>>, err |-> "api"]
      [] OTHER -> [data |-> <<>>, err |-> "unknown"]

\* What an answer of the query endpoint amounts to for the caller.
Yield(resp) ==
    IF resp.err THEN [data |-> <<>>, err |-> "transport"]
    ELSE IF ~resp.json THEN [data |-> <<>>, err |-> "json"]
    ELSE Table(resp.r)

Decoded(resp) == ~resp.err /\ resp.json

(***************************************************************************)
(* C1.  After any terminal call returns, whatever its outcome, the         *)
(* client's Query is empty and its category list is empty.                 *)
(* The code returns early, without initQuery, when a renewal fails or a    *)
(* query fetch fails in transport or in decoding.                          *)
(***************************************************************************)
C1_ResetOnEveryReturn ==
    pc = "returned" => Query = <<>> /\ categories = <<>>

(***************************************************************************)
(* C2.  On the retry after ExpiredToken, the token carried by the second   *)
(* query fetch is the token stored in the client after the renewal.        *)
(* The code fetches the URL built before the renewal a second time.        *)
(***************************************************************************)
C2_RetryCarriesRenewedToken ==
    pc = "getResults2" => TokenOf(query) = APIToken.Token

(***************************************************************************)
(* C3.  Within one call the query is fetched at most twice and the token   *)
(* is renewed at most once after the first query fetch; a first answer     *)
(* processed as ExpiredToken is followed by exactly one renewal and, when  *)
(* that renewal succeeds, by exactly one more query fetch; once the second *)
(* attempt is answered the call has returned, and what it returns is what  *)
(* that second answer yields, ExpiredToken included.                       *)
(***************************************************************************)
C3_RenewalsAfterFirstFetch ==
    {i \in 1..Len(trace) :
        /\ trace[i].ev \in {"fetch", "response"}
        /\ trace[i].kind = "token"
        /\ \E j \in FetchesAt("query") : j < i}

C3_RetriedExactlyOnce ==
    Started =>
       /\ NumFetches("query") <= 2
       /\ Cardinality(C3_RenewalsAfterFirstFetch \cap FetchesAt("token")) <= 1
       /\ Len(QueryAnswers) <= 2
       /\ (/\ Len(QueryAnswers) >= 1
           /\ Decoded(QueryAnswers[1].resp)
           /\ IsExpiredEnvelope(QueryAnswers[1].resp.r)) =>
             /\ Cardinality(C3_RenewalsAfterFirstFetch \cap FetchesAt("token")) = 1
             /\ (\E i \in C3_RenewalsAfterFirstFetch \cap ResponsesAt("token") :
                     Decoded(trace[i].resp)) => NumFetches("query") = 2
       /\ Len(QueryAnswers) = 2 =>
             /\ pc = "returned"
             /\ ret = Yield(QueryAnswers[2].resp)
             /\ IsResponse(trace[Len(trace)], "query")

C3_Witness ==
    /\ pc = "returned"
    /\ Len(QueryAnswers) = 2
    /\ Decoded(QueryAnswers[2].resp)
    /\ IsExpiredEnvelope(QueryAnswers[2].resp.r)
    /\ ret.err = "expired token"

(***************************************************************************)
(* C4.  A call started with a valid token whose first fetch is answered by *)
(* an expired-token envelope and whose retried fetch is answered by a      *)
(* well-formed results envelope returns the second answer's results with   *)
(* no error, and the token is renewed exactly once during the call.        *)
(***************************************************************************)
C4_Case ==
    /\ pc = "returned"
    /\ start.valid
    /\ Len(QueryAnswers) = 2
    /\ Decoded(QueryAnswers[1].resp) /\ IsExpiredEnvelope(QueryAnswers[1].resp.r)
    /\ Decoded(QueryAnswers[2].resp)
    /\ HasResults(QueryAnswers[2].resp.r) /\ Decodes(QueryAnswers[2].resp.r.Torrents)

C4_EndToEndRetry ==
    C4_Case =>
       /\ ret.err = "nil"
       /\ ret.data = ListOf(QueryAnswers[2].resp.r.Torrents)
       /\ NumRenewals = 1
       /\ NumFetches("token") = 1

C4_Witness == C4_Case /\ ret.data = <<"r2">>

(***************************************************************************)
(* C5.  Only ExpiredToken is retried: when the first query fetch is        *)
(* answered by anything else (transport error, undecodable body, remote    *)
(* error, unknown response, results, benign empty) the call has returned   *)
(* after that single fetch, with no renewal and no fetch after it.         *)
(***************************************************************************)
C5_FirstNotExpired ==
    /\ Len(QueryAnswers) >= 1
    /\ ~(Decoded(QueryAnswers[1].resp) /\ IsExpiredEnvelope(QueryAnswers[1].resp.r))

C5_OnlyExpiredIsRetried ==
    C5_FirstNotExpired =>
       /\ pc = "returned"
       /\ NumFetches("query") = 1
       /\ IsResponse(trace[Len(trace)], "query")
       /\ \A i \in FetchesAt("token") : \A j \in FetchesAt("query") : i < j
       /\ ret = Yield(QueryAnswers[1].resp)

C5_Witness ==
    /\ C5_FirstNotExpired
    /\ Decoded(QueryAnswers[1].resp)
    /\ Table(QueryAnswers[1].resp.r).err = "api"
    /\ NumFetches("token") = 0

C7_EmptyTokenInvalid ==
    (Started /\ start.tok = "") =>
       /\ ~start.valid
       /\ IsFetch(trace[2], "token")
       /\ \A j \in FetchesAt("query") : \E i \in ResponsesAt("token") :
             i < j /\ Decoded(trace[i].resp)

C7_Witness ==
    /\ Started
    /\ start.tok = ""
    /\ start.now < start.expires
    /\ pc = "getResults1"

(***************************************************************************)
(* C8.  An answer whose envelope has no results, a non-empty error string  *)
(* and error code 20 decides the call, on the first attempt or on the      *)
(* retried one: the call has returned an empty list and no error, and no   *)
(* renewal or fetch follows that answer.                                   *)
(***************************************************************************)
C8_IsBenignAnswer(e) ==
    IsResponse(e, "query") /\ Decoded(e.resp) /\ IsBenignEnvelope(e.resp.r)

C8_BenignEmpty ==
    \A i \in 1..Len(trace) :
       C8_IsBenignAnswer(trace[i]) =>
          /\ i = Len(trace)
          /\ pc = "returned"
          /\ ret = [data |-> <<>>, err |-> "nil"]

C8_Witness ==
    /\ pc = "returned"
    /\ Len(QueryAnswers) = 2
    /\ C8_IsBenignAnswer(QueryAnswers[2])
    /\ ret.err = "nil"

(***************************************************************************)
(* C9.  Every decoded envelope is processed as the decision table says,    *)
(* in its order: results present -> the decoded list or a decode error,    *)
(* whatever the error fields; else a non-empty error string with code 4 -> *)
(* the distinguished expired-token error, with code 20 -> an empty list    *)
(* and no error, with another code -> a generic error; else an unknown     *)
(* error.  The distinguished error shows as the retry after the first      *)
(* attempt and as the returned error after the second.                     *)
(***************************************************************************)
C9_DecisionTable ==
    \A i \in ResponsesAt("query") :
       Decoded(trace[i].resp) =>
          LET t == Table(trace[i].resp.r)
              first == \A j \in ResponsesAt("query") : i <= j
          IN  IF first /\ t.err = "expired token"
              THEN i < Len(trace) /\ IsFetch(trace[i + 1], "token")
              ELSE i = Len(trace) /\ pc = "returned" /\ ret = t

C9_Witness ==
    /\ pc = "returned"
    /\ Len(QueryAnswers) = 1
    /\ Decoded(QueryAnswers[1].resp)
    /\ HasResults(QueryAnswers[1].resp.r)
    /\ QueryAnswers[1].resp.r.Error # ""
    /\ QueryAnswers[1].resp.r.ErrorCode = 4
    /\ ret = [data |-> <<"r1">>, err |-> "nil"]

(***************************************************************************)
(* C10.  The request of a terminal call holds exactly one category         *)
(* fragment, category=c1;c2;...;cn, for the values c1..cn given to the     *)
(* category setter since the last reset (n >= 1), and no category fragment *)
(* when none was given.  After a call that returned without the reset, the *)
(* fragment of that call is still in Query and the next request holds two. *)
(***************************************************************************)
C10_Expected(cats) ==
    LET RECURSIVE Semi(_)
        Semi(k) == IF k = 1 THEN Itoa(cats[1])
                   ELSE Semi(k - 1) \o <<";">> \o Itoa(cats[k])
    IN  Semi(Len(cats))

C10_OneCategoryFragment ==
    pc = "getResults1" =>
       LET at == FragmentsAt(query, "&category=")
       IN  IF setCats = <<>> THEN at = {}
           ELSE /\ Cardinality(at) = 1
                /\ \A i \in at : FragmentValue(query, i) = C10_Expected(setCats)

(***************************************************************************)
(* C11.  When the renewal at the start of a terminal call fails (transport *)
(* error or undecodable body of the token endpoint), the call returns an   *)
(* error, has issued that one token fetch and no query fetch, and the      *)
(* stored token, value and expiry, is the one the call started with.       *)
(***************************************************************************)
C11_Case ==
    /\ Started
    /\ Len(trace) >= 3
    /\ IsResponse(trace[3], "token")
    /\ ~Decoded(trace[3].resp)

C11_FailedRenewalAborts ==
    C11_Case =>
       /\ pc = "returned"
       /\ Len(trace) = 3
       /\ ~start.valid
       /\ ret = [data |-> <<>>, err |-> IF trace[3].resp.err THEN "transport" ELSE "json"]
       /\ NumFetches("token") = 1
       /\ NumFetches("query") = 0
       /\ APIToken = [Token |-> start.tok, Expires |-> start.expires]

\* the token that expired (a non-empty one, past its expiry) is still stored
C11_Witness ==
    /\ C11_Case
    /\ pc = "returned"
    /\ ~trace[3].resp.err
    /\ start.tok = "tokA"
    /\ start.now > start.expires
    /\ APIToken.Token = "tokA"

(***************************************************************************)
(* C12.  A builder setter performs no fetch and leaves the token alone.    *)
(* A non-category setter leaves the category list alone and makes Query    *)
(* its old value followed by exactly one fragment: one setter key, then a  *)
(* non-empty value holding no other key.  The Category setter leaves Query *)
(* alone and makes the category list its old value followed by one         *)
(* element.  (The model has one client, which every setter acts on and     *)
(* hands back.)                                                            *)
(***************************************************************************)
C12_IsSetterStep ==
    /\ pc = "idle"
    /\ pc' = "idle"
    /\ (Query' # Query \/ categories' # categories)

C12_OneFragmentAppended ==
    LET n == Len(Query)
    IN  /\ Len(Query') >= n + 2
        /\ SubSeq(Query', 1, n) = Query
        /\ Query'[n + 1] \in SetterKeys
        /\ \A j \in (n + 2)..Len(Query') : Query'[j] \notin Keys

C12_OneCategoryAppended ==
    /\ Len(categories') = Len(categories) + 1
    /\ SubSeq(categories', 1, Len(categories)) = categories
    /\ categories'[Len(categories')] \in CategoryIds

C12_SetterFrame ==
    [][C12_IsSetterStep =>
          /\ trace' = trace
          /\ trace' = <<>>
          /\ APIToken' = APIToken
          /\ \/ categories' = categories /\ C12_OneFragmentAppended
             \/ Query' = Query /\ C12_OneCategoryAppended]_vars

\* a setter and the Category setter have acted on a Query that still held the
\* mode fragment of a call that returned without the reset
C12_Witness ==
    /\ pc = "idle"
    /\ Len(Query) >= 4
    /\ Query[1] = "&mode="
    /\ Query[3] \in SetterKeys
    /\ NumModeFrags(Query) = 1
    /\ categories # <<>>

(***************************************************************************)
(* C13.  A terminal call issues at most two query fetches and at most two  *)
(* token fetches, and, the transport answering each fetch, every call that *)
(* has started comes to return a result list or an error, also when the    *)
(* query endpoint answers ExpiredToken every time.                         *)
(***************************************************************************)
C13_InCall == pc \in {"renewToken1", "getResults1", "renewToken2", "getResults2"}

C13_Bounded ==
    Started =>
       /\ NumFetches("query") <= 2
       /\ NumFetches("token") <= 2
       /\ Len(trace) <= 9

C13_HasReturned ==
    /\ pc = "returned"
    /\ ret.err \in {"nil", "transport", "json", "unmarshal", "expired token", "api", "unknown"}

C13_Terminates ==
    /\ []C13_Bounded
    /\ (C13_InCall ~> C13_HasReturned)

\* two renewals and two query fetches, the second answer ExpiredToken again
C13_Witness ==
    /\ pc = "returned"
    /\ Started
    /\ NumFetches("token") = 2
    /\ NumFetches("query") = 2
    /\ ret.err = "expired token"

(***************************************************************************)
(* C14.  Every query request a terminal call sends carries exactly one     *)
(* mode fragment, and its value is the mode of the operation invoked:      *)
(* search for Search, list for List.  After a call that returned without   *)
(* the reset, the mode fragment of that call is still in Query and the     *)
(* next request carries it in front of its own.                            *)
(***************************************************************************)
C14_OneModeFragment ==
    pc \in {"getResults1", "getResults2"} =>
       LET at == FragmentsAt(query, "&mode=")
       IN  /\ Cardinality(at) = 1
           /\ \A i \in at : FragmentValue(query, i) = <<start.mode>>

(***************************************************************************)
(* C15.  The client does not synchronise its callers.  With a second       *)
(* goroutine calling builder methods on the shared client: its builder     *)
(* call is never held back, wherever the first goroutine's terminal call   *)
(* stands; the request a call builds carries everything Query and the      *)
(* category list hold at that moment, the second goroutine's fragments and *)
(* categories included; and the reset of a call empties Query and the      *)
(* category list, whatever the second goroutine has put there meanwhile.   *)
(***************************************************************************)
C15_NeverHeldBack ==
    (pc \in InClient /\ Len(otherSets) < MaxOtherSets) => ENABLED OtherSearchImDB

C15_IsBuild == pc \in {"idle", "renewToken1"} /\ pc' = "getResults1"

C15_BuildCarriesAll ==
    C15_IsBuild =>
       /\ CountIn(query', {"&search_imdb="}) = CountIn(Query, {"&search_imdb="})
       /\ categories # <<>> =>
             LET at == FragmentsAt(query', "&category=")
                 last == CHOOSE i \in at : \A j \in at : j <= i
             IN  /\ at # {}
                 /\ FragmentValue(query', last) = C10_Expected(categories)

C15_IsReset ==
    /\ pc \in {"getResults1", "getResults2"}
    /\ pc' = "returned"
    /\ Decoded(trace'[Len(trace')].resp)

C15_ResetErasesAll == C15_IsReset => Query' = <<>> /\ categories' = <<>>

C15_NoSynchronization ==
    /\ []C15_NeverHeldBack
    /\ [][C15_BuildCarriesAll /\ C15_ResetErasesAll]_vars

\* the second goroutine set its descriptor while the first one's request was in
\* flight; the first one's call returned and its reset has erased it
C15_Witness ==
    /\ pc = "returned"
    /\ otherSets = <<"getResults1">>
    /\ ret.err = "nil"
    /\ Query = <<>>
    /\ categories = <<>>

\* the first goroutine's request carries the second one's fragment or category
C15_CarriesForeign ==
    /\ pc = "getResults1"
    /\ otherSets = <<"idle">>
    /\ \/ CountIn(query, {"&search_imdb="}) = 1
       \/ \E i \in FragmentsAt(query, "&category=") : FragmentValue(query, i) = <<"4", "4">>

(***************************************************************************)
(* C16.  After a successful renewal (a decodable answer of the token       *)
(* endpoint) the stored token is the decoded string and its expiry is the  *)
(* renewal time plus the configured duration, which is 890 seconds under   *)
(* New and under NewWithConfig with a zero duration.  The constructor      *)
(* returns a client exactly when its renewal succeeded, and that client    *)
(* has an empty Query and an empty category list.                          *)
(***************************************************************************)
C16_LastTokenAnswer == CHOOSE i \in ResponsesAt("token") : \A j \in ResponsesAt("token") : j <= i

\* the clock moves between calls only, so `now` is the renewal time
C16_RenewalInstalled ==
    (pc \notin {"idle", "noclient"} /\ ResponsesAt("token") # {}) =>
       LET resp == trace[C16_LastTokenAnswer].resp
       IN  Decoded(resp) =>
              APIToken = [Token |-> resp.token, Expires |-> now + api_tokenExpiration]

C16_Constructing == Len(trace) > 0 /\ trace[1].ev = "new"

C16_Constructor ==
    C16_Constructing =>
       /\ api_tokenExpiration =
             (IF trace[1].ctor = "New" \/ trace[1].conf = 0 THEN 890 ELSE trace[1].conf)
       /\ Len(trace) = 3 =>
             /\ pc = (IF Decoded(trace[3].resp) THEN "constructed" ELSE "noclient")
             /\ pc = "constructed" => (Query = <<>> /\ categories = <<>> /\ ret.err = "nil")
             /\ pc = "noclient" => ret.err \in {"transport", "json"}

C16_RenewalAndConstruction ==
    /\ C16_RenewalInstalled
    /\ C16_Constructor
    /\ (pc \in {"constructed", "noclient"}) = (C16_Constructing /\ Len(trace) = 3)

\* a renewal inside a call, at a time other than 0, replaced the expired token
C16_Witness ==
    /\ pc = "getResults1"
    /\ ~start.valid
    /\ start.tok = "tokA"
    /\ now = 2
    /\ api_tokenExpiration = 1
    /\ APIToken = [Token |-> "tokB", Expires |-> 3]

\* NewWithConfig with a non-zero duration has returned a client
C16_Constructed ==
    /\ pc = "constructed"
    /\ trace[1].ctor = "NewWithConfig"
    /\ trace[1].conf = 1
    /\ APIToken = [Token |-> "tokA", Expires |-> 1]

(***************************************************************************)
(* C17.  No query request is fetched with an empty token: on the first     *)
(* attempt and on the retry the token in the request URL is non-empty,     *)
(* also when the token endpoint has answered with a decodable body whose   *)
(* token field is missing or empty.  renewToken stores whatever string the *)
(* body decodes to, and call builds its request from it unchecked.         *)
(***************************************************************************)
C17_NoEmptyTokenSent ==
    pc \in {"getResults1", "getResults2"} => TokenOf(query) # ""

(***************************************************************************)
(* C18.  Inside a terminal call the token endpoint is fetched for two      *)
(* reasons only: the token was not valid (empty, or past its expiry) when  *)
(* the call started, or the first answer of the query endpoint was         *)
(* processed as ExpiredToken.  A call that started with a valid token and  *)
(* whose first answer is not ExpiredToken has made exactly one fetch, the  *)
(* query, and has left the stored token, value and expiry, as it was.      *)
(***************************************************************************)
C18_ValidAtStart == start.tok # "" /\ ~(start.now > start.expires)

C18_FirstAnswerAt == CHOOSE i \in ResponsesAt("query") : \A j \in ResponsesAt("query") : i <= j

C18_AfterExpiredFirstAnswer(i) ==
    /\ i > 2
    /\ ResponsesAt("query") # {}
    /\ i - 1 = C18_FirstAnswerAt
    /\ Decoded(trace[i - 1].resp)
    /\ IsExpiredEnvelope(trace[i - 1].resp.r)

C18_RenewalOnlyForCause ==
    Started =>
       /\ start.valid = C18_ValidAtStart
       /\ \A i \in FetchesAt("token") :
             \/ i = 2 /\ ~C18_ValidAtStart
             \/ C18_AfterExpiredFirstAnswer(i)
       /\ (C18_ValidAtStart /\ C5_FirstNotExpired) =>
             /\ pc = "returned"
             /\ Len(trace) = 3
             /\ IsFetch(trace[2], "query")
             /\ IsResponse(trace[3], "query")
             /\ APIToken = [Token |-> start.tok, Expires |-> start.expires]

\* a call started at the expiry instant of its token and answered with a generic
\* remote error: one fetch, the token as it was
C18_Witness ==
    /\ Started
    /\ pc = "returned"
    /\ start.tok = "tokA"
    /\ start.now = start.expires
    /\ ret.err = "api"
    /\ Len(trace) = 3
    /\ APIToken = [Token |-> "tokA", Expires |-> start.expires]

(***************************************************************************)
(* C19.  A terminal call in which every fetch succeeded and every body     *)
(* decoded, so that its last attempt reached response processing, has      *)
(* returned with an empty Query and an empty category list, whatever the   *)
(* processed outcome: results, undecodable results, benign empty, generic  *)
(* remote error, unknown response, or ExpiredToken on the retry.           *)
(***************************************************************************)
C19_AllAnswersDecoded ==
    \A i \in ResponsesAt("token") \cup ResponsesAt("query") : Decoded(trace[i].resp)

C19_Case == Started /\ pc = "returned" /\ C19_AllAnswersDecoded

C19_ResetAfterProcessing ==
    C19_Case =>
       /\ IsResponse(trace[Len(trace)], "query")
       /\ ret.err \in {"nil", "unmarshal", "api", "unknown", "expired token"}
       /\ Query = <<>>
       /\ categories = <<>>

\* the retried attempt was answered ExpiredToken again
C19_Witness ==
    /\ C19_Case
    /\ NumFetches("query") = 2
    /\ ret.err = "expired token"
    /\ Query = <<>>
    /\ categories = <<>>

====
